---- MODULE Spec2Model ----
(***************************************************************************)
(* A model of the research session of open-deep-research-advanced:         *)
(*   - UnifiedResearchAgent (app/lib/models/unified-research-agent.ts):    *)
(*     processQueryStream, doDeepResearch, doRegularResearch, searchWeb,   *)
(*     generateSerpQueries, processSerpResult, generateFinalReport;        *)
(*   - the POST handler of app/api/research/route.ts, which consumes the   *)
(*     agent's async generator and writes newline-delimited JSON lines.    *)
(* JavaScript runs the generator and the route loop on one thread: the     *)
(* generator is suspended at a yield until the route has written the chunk *)
(* and asks for the next one.  The progress callback writes its line at    *)
(* the moment reportProgress is called.  The response body is the sequence *)
(* of write() calls, kept in the variable lines.                           *)
(***************************************************************************)
EXTENDS Integers, Sequences, FiniteSets, TLC

(***************************************************************************)
(* Bounds of the model (the environment's inputs).                         *)
(***************************************************************************)
\* requested depth is drawn from 1..MaxDepth
MaxDepth == 2
\* requested breadth is drawn from 1..MaxBreadth
MaxBreadth == 1
\* longest "queries" array the planner LLM returns
MaxPlan == 3
\* most documents the search provider returns for one query
MaxResults == 2
\* most learnings the extraction LLM returns for one result set
MaxLearnings == 1
\* most follow-up questions the extraction LLM returns
MaxFollowUps == 2
\* most provider requests the callers of the rate limiter start
MaxRequests == 6
\* the clock of the rate limiter runs from 0 to MaxTimeMs
MaxTimeMs == 62000
\* largest "retry after <n>s" hint of a rate-limit error
MaxRetryAfterS == 1
\* most chat calls made on one chat client
MaxChats == 3
\* largest depth and breadth the recursive deepResearch is called with
MaxCallDepth == 2
MaxCallBreadth == 3
\* most event lines of a response body read by the client
MaxEvents == 5

(***************************************************************************)
(* Program constants.                                                      *)
(***************************************************************************)
\* unified-research-agent.ts:522  Math.min(Math.max(1, options.depth), 5)
DepthFloor == 1
DepthCap == 5
\* unified-research-agent.ts:523  Math.min(Math.max(2, options.breadth), 5)
BreadthFloor == 2
BreadthCap == 5
\* unified-research-agent.ts:92   const maxRetries = 2
maxRetries == 2
\* unified-research-agent.ts:691-692 defaults of processQueryStream
DefaultDepth == 2
DefaultBreadth == 3
\* src/lib/openrouter.ts:115  const ConcurrencyLimit = 2
ConcurrencyLimit == 2
\* src/lib/openrouter.ts:128-133  RATE_LIMIT
MAX_REQUESTS_PER_MINUTE == 5
BACKOFF_INITIAL_MS == 1000
BACKOFF_MAX_MS == 60000
BACKOFF_MULTIPLIER == 2
\* src/lib/openrouter.ts:146  if (timeElapsed >= 60000)
WindowMs == 60000

Min(a, b) == IF a < b THEN a ELSE b
Max(a, b) == IF a > b THEN a ELSE b

(***************************************************************************)
(* Strings.  The user's query, the SERP queries the planner LLM may        *)
(* return and the follow-up questions the extraction LLM may return.       *)
(* " Q" and "q" differ as strings and are equal after trim + lowercase.    *)
(***************************************************************************)
UserQuery == "q"
SerpStrings == {"a"}
FollowUpStrings == {" Q", "r"}
\* the query of a request: the user's text, or nothing
Queries == {UserQuery, ""}
AllStrings == Queries \cup SerpStrings \cup FollowUpStrings

\* the URLs the search provider knows
Urls == {"https://u.example/1"}
\* urls a provider may also return: none at all, and text that is no URL
NoUrl == ""
BadUrls == {NoUrl, "not a url"}
AllUrls == Urls \cup BadUrls
\* new URL(url) succeeds (it throws a TypeError on text that is no URL)
CanParseUrl(url) == url \in Urls

\* all sequences over S of length lo..hi
SeqsOf(S, lo, hi) == UNION {[1..n -> S] : n \in lo..hi}

Take(s, n) == SubSeq(s, 1, Min(n, Len(s)))

(***************************************************************************)
(* Lines of the response body.  sub is the index of the sub-query a        *)
(* sources or learning line belongs to (0 elsewhere); counts tells whether *)
(* a progress line carries details.queries.current/total.  Of the text of  *)
(* a content line the model keeps what the program itself puts into it:    *)
(* learnings are the learnings it lists (each given by its sub-query),     *)
(* section tells whether it appends a "## Sources" section, whose bullets  *)
(* are then urls.                                                          *)
(***************************************************************************)
Ev(type, sub, urls) ==
    [type |-> type, sub |-> sub, urls |-> urls, counts |-> FALSE,
     completed |-> 0, total |-> 0, depth |-> 0, fallback |-> FALSE,
     learnings |-> <<>>, section |-> FALSE]

NoChunk == Ev("none", 0, <<>>)

\* Variant of ProgressLine with an off-by-one in the completed counter.
ProgressLineAhead(isDeep, p) ==
    IF isDeep /\ p.full
    THEN [Ev("progress", 0, <<>>) EXCEPT !.counts = TRUE,
              !.completed = p.completedQueries + 1, !.total = p.totalQueries,
              !.depth = p.currentDepth]
    ELSE Ev("progress", 0, <<>>)

\* route.ts:158-194  progressCallback: the JSON line of one progress report.
\* A report made from the whole progressData carries the counters; the
\* partial reports ({progress, status}) leave them undefined, and
\* JSON.stringify drops them.
ProgressLine(isDeep, p) ==
    IF isDeep /\ p.full
    THEN [Ev("progress", 0, <<>>) EXCEPT !.counts = TRUE,
              !.completed = p.completedQueries, !.total = p.totalQueries,
              !.depth = p.currentDepth]
    ELSE Ev("progress", 0, <<>>)

\* a partial report: reportProgress({progress, status})
Partial == [full |-> FALSE]

\* unified-research-agent.ts:74-78 reportProgress + route.ts:188 writer.write
ReportProgress(ls, isDeep, p) == Append(ls, ProgressLine(isDeep, p))

(***************************************************************************)
(* The pure parts of the agent.                                            *)
(***************************************************************************)
\* unified-research-agent.ts:522
ClampDepth(d) == Min(Max(DepthFloor, d), DepthCap)
\* unified-research-agent.ts:523
ClampBreadth(b) == Min(Max(BreadthFloor, b), BreadthCap)
\* unified-research-agent.ts:613
NumLearnings(depth) == Max(2, 5 \div depth)
\* unified-research-agent.ts:614
NumFollowUps(depth) == Max(1, 3 \div depth)

\* A provider response: an error (axios throws) or a data array of
\* documents, each document given by its url.
ProviderError == [ok |-> FALSE, data |-> <<>>]
ProviderData(docs) == [ok |-> TRUE, data |-> docs]

\* unified-research-agent.ts:134-157  sources = data.map(...).filter(s => s.url)
SourcesOf(docs) == SelectSeq(docs, LAMBDA url : url # NoUrl)

\* Variant of SearchWebFrom whose retry test is off by one.
RECURSIVE SearchWebFromOneMore(_, _)
SearchWebFromOneMore(responses, retries) ==
    LET r == responses[retries + 1] IN
    IF r.ok /\ Len(r.data) > 0
    THEN [results |-> r.data, success |-> TRUE, sources |-> SourcesOf(r.data),
          attempts |-> retries + 1]
    ELSE IF retries <= maxRetries
         THEN SearchWebFromOneMore(responses, retries + 1)
         ELSE [results |-> <<>>, success |-> FALSE, sources |-> <<>>,
               attempts |-> retries + 1]

\* unified-research-agent.ts:91-201 searchWeb: up to maxRetries + 1 attempts,
\* the first non-empty data array wins; attempts counts provider requests.
RECURSIVE SearchWebFrom(_, _)
SearchWebFrom(responses, retries) ==
    LET r == responses[retries + 1] IN
    IF r.ok /\ Len(r.data) > 0
    THEN [results |-> r.data, success |-> TRUE, sources |-> SourcesOf(r.data),
          attempts |-> retries + 1]
    ELSE IF retries < maxRetries
         THEN SearchWebFrom(responses, retries + 1)
         ELSE [results |-> <<>>, success |-> FALSE, sources |-> <<>>,
               attempts |-> retries + 1]

searchWeb(responses) == SearchWebFrom(responses, 0)

\* unified-research-agent.ts:97-100,129-132: the progress reports of one
\* searchWeb call: one per attempt, one more when results were found.
RECURSIVE ReportN(_, _, _)
ReportN(ls, isDeep, n) ==
    IF n = 0 THEN ls ELSE ReportN(ReportProgress(ls, isDeep, Partial), isDeep, n - 1)

SearchReports(ls, isDeep, res) ==
    ReportN(ls, isDeep, res.attempts + (IF res.success THEN 1 ELSE 0))

\* What the provider answers to the requests of one searchWeb call.
DocSeqs == SeqsOf(Urls, 0, MaxResults)
ProviderAnswers ==
    {[a \in 1..(maxRetries + 1) |-> ProviderError]}
    \cup {[a \in 1..(maxRetries + 1) |-> ProviderData(d)] : d \in DocSeqs}

\* The answers to the one search of a regular session: the documents have
\* a url of any kind.  (The deep session never parses a url, lines 296-300,
\* so its searches are given well-formed urls only.)
RegularAnswers ==
    {[a \in 1..(maxRetries + 1) |-> ProviderError]}
    \cup {[a \in 1..(maxRetries + 1) |-> ProviderData(d)] :
             d \in SeqsOf(AllUrls, 0, MaxResults)}

\* unified-research-agent.ts:466-481 formatSearchResults: `new URL(url)` is
\* evaluated for every result that has a url, and throws when it cannot
\* be parsed
FormatThrows(results) ==
    \E n \in 1..Len(results) : results[n] # NoUrl /\ ~CanParseUrl(results[n])

\* The planner LLM (unified-research-agent.ts:239-263).  The chat request
\* throws, or it returns text in which no JSON object is found or parses
\* ("no_json"), or text that parses to a value without a queries array
\* ("no_queries_array"), or text that parses to an object with a queries
\* array, whose elements are objects with a query string as the declared
\* return type says.
PlannerFailures == {"throws", "no_json", "no_queries_array"}
PlannerOutputs ==
    {[kind |-> f, queries |-> <<>>] : f \in PlannerFailures}
    \cup {[kind |-> "queries_array", queries |-> qs] :
             qs \in SeqsOf(SerpStrings, 0, MaxPlan)}

\* Variant of generateSerpQueries that lets a value without a queries array
\* through as an empty plan.
generateSerpQueriesLenient(query, numQueries, llm) ==
    IF llm.kind \in {"queries_array", "no_queries_array"}
    THEN Take(llm.queries, numQueries)
    ELSE <<query>>

\* unified-research-agent.ts:206-274 generateSerpQueries
generateSerpQueries(query, numQueries, llm) ==
    IF llm.kind = "queries_array"
    THEN Take(llm.queries, numQueries)
    ELSE <<query>>

\* The extraction LLM: failure, or learnings (their number) and follow-ups.
ExtractOutputs ==
    {[ok |-> FALSE, learnings |-> 0, followUpQuestions |-> <<>>]}
    \cup {[ok |-> TRUE, learnings |-> n, followUpQuestions |-> f] :
            n \in 0..MaxLearnings, f \in SeqsOf(FollowUpStrings, 0, MaxFollowUps)}

\* unified-research-agent.ts:279-370 processSerpResult; llmCalled tells
\* whether the chat request was made (it is skipped for empty results),
\* failed whether it threw or returned text that does not parse.
processSerpResult(results, numLearnings, numFollowUpQuestions, llm) ==
    IF Len(results) = 0
    THEN [learnings |-> 0, followUpQuestions |-> <<>>, llmCalled |-> FALSE,
          failed |-> FALSE]
    ELSE IF llm.ok
         THEN [learnings |-> Min(llm.learnings, numLearnings),
               followUpQuestions |-> Take(llm.followUpQuestions, numFollowUpQuestions),
               llmCalled |-> TRUE, failed |-> FALSE]
         ELSE [learnings |-> 0, followUpQuestions |-> <<>>, llmCalled |-> TRUE,
               failed |-> TRUE]

(***************************************************************************)
(* State.                                                                  *)
(***************************************************************************)
VARIABLES
    userQuery,          \* the request: its query
    options,            \* the request: [isDeepResearch, depth, breadth]
    pc,                 \* where the agent's generator stands
    allLearnings,       \* doDeepResearch: for each learning, its sub-query
    visitedQueries,     \* doDeepResearch: Set<string>
    visitedUrls,        \* doDeepResearch: Set<string>
    allSources,         \* doDeepResearch: Source[]
    progressData,       \* doDeepResearch: the progress object
    currentDepth,       \* doDeepResearch: loop variable
    queriesToProcess,   \* doDeepResearch: the frontier
    currentLevelQueries,
    nextLevelQueries,
    i,                  \* index into currentLevelQueries (1-based)
    generatedQueries,
    plannerKind,        \* what the planner LLM answered for the current topic
    j,                  \* index into generatedQueries (1-based)
    found,              \* result of the last searchWeb: [results, sources]
    k,                  \* index into found.sources (1-based)
    extracted,          \* result of the last processSerpResult
    m,                  \* index of the next learning to emit (1-based)
    chunk,              \* the chunk yielded to the route, not yet written
    lines,              \* the response body: the lines written so far
    writerClosed,       \* route.ts: writer.close() has been called
    aborted,            \* abortController.signal.aborted
    planCalls,          \* number of generateSerpQueries LLM calls made
    searchCalls,        \* number of searchWeb calls made
    searched,           \* how often each string was passed to searchWeb
    failedSearches,     \* the sub-queries whose searchWeb call found nothing
    callsAfterAbort,    \* a search or LLM call was started after abort()
    now,                \* lib/openrouter.ts: Date.now()
    requestCount,       \* lib/openrouter.ts: let requestCount
    lastResetTime,      \* lib/openrouter.ts: let lastResetTime
    currentBackoffMs,   \* lib/openrouter.ts: let currentBackoffMs
    worker,             \* where each caller of the rate limiter stands
    wake,               \* when the timer of each sleeping caller is due
    requests,           \* the start times of the provider requests
    signals,            \* rate-limit errors seen since the backoff was reset
    attempts,           \* provider requests each caller started in its current call
    swResponses,        \* searchWeb alone: what the provider answers, request by request
    swResult,           \* searchWeb alone: what the call returned
    chatPc,             \* chat client: where the current chat call stands
    apiKeyReloaded,     \* chat client: the current call reloaded this.apiKey
    chatFetches,        \* chat client: fetch requests of the current call
    chatLog,            \* chat client: the calls that have ended
    rCall,              \* recursive deepResearch: the calls, by their path
    rTask,              \* recursive deepResearch: the sub-query tasks, by their path
    dStack,             \* DeepResearchAgent.deepResearch: the calls on the stack
    dLog,               \* DeepResearchAgent.deepResearch: the calls that returned
    sentEvents,         \* client: the number of event lines of the response body
    unread,             \* client: the bytes of the body not yet read
    applied,            \* client: the events processStreamData has applied
    writeFailed,        \* route: a chunk write has failed (the client has gone)
    closeCalls          \* route: the number of writer.close() calls

vars == <<userQuery, options, pc, allLearnings, visitedQueries, visitedUrls, allSources,
          progressData, currentDepth, queriesToProcess, currentLevelQueries,
          nextLevelQueries, i, generatedQueries, plannerKind, j, found, k,
          extracted, m, chunk, lines, writerClosed, aborted, planCalls,
          searchCalls, searched, failedSearches, callsAfterAbort,
          now, requestCount, lastResetTime, currentBackoffMs, worker, wake,
          requests, signals, attempts, swResponses, swResult,
          chatPc, apiKeyReloaded, chatFetches, chatLog, rCall, rTask,
          dStack, dLog, sentEvents, unread, applied, writeFailed, closeCalls>>

\* the state of the research session
agentVars == <<userQuery, options, pc, allLearnings, visitedQueries, visitedUrls,
               allSources, progressData, currentDepth, queriesToProcess,
               currentLevelQueries, nextLevelQueries, i, generatedQueries,
               plannerKind, j, found, k, extracted, m, chunk, lines,
               writerClosed, aborted, planCalls, searchCalls, searched,
               failedSearches, callsAfterAbort>>

\* the state of the rate limiter of lib/openrouter.ts
limiterVars == <<now, requestCount, lastResetTime, currentBackoffMs, worker,
                 wake, requests, signals, attempts>>

\* the state of a searchWeb call looked at on its own
searchWebVars == <<swResponses, swResult>>

\* the state of CustomOpenRouterClient
chatVars == <<chatPc, apiKeyReloaded, chatFetches, chatLog>>

\* the state of the recursive deepResearch of lib/openrouter.ts
recursiveVars == <<rCall, rTask>>

\* the state of DeepResearchAgent.deepResearch
deepAgentVars == <<dStack, dLog>>

\* the state of the client that reads the response body
clientVars == <<sentEvents, unread, applied>>

\* what the route keeps about its writer besides writerClosed
routeVars == <<writeFailed, closeCalls>>

\* the components other than the research session and its route
notSession == <<limiterVars, searchWebVars, chatVars, recursiveVars, deepAgentVars,
                clientVars>>

\* what the steps of the research session leave alone
notAgent == <<notSession, routeVars>>

\* what the steps of the rate limiter leave alone
notLimiter == <<agentVars, routeVars, searchWebVars, chatVars, recursiveVars, deepAgentVars,
                clientVars>>

\* what a searchWeb call on its own leaves alone
notSearchWeb == <<agentVars, routeVars, limiterVars, chatVars, recursiveVars, deepAgentVars,
                  clientVars>>

\* what the chat client leaves alone
notChat == <<agentVars, routeVars, limiterVars, searchWebVars, recursiveVars, deepAgentVars,
             clientVars>>

\* what the recursive deepResearch leaves alone
notRecursive == <<agentVars, routeVars, limiterVars, searchWebVars, chatVars, deepAgentVars,
                  clientVars>>

\* what DeepResearchAgent.deepResearch leaves alone
notDeepAgent == <<agentVars, routeVars, limiterVars, searchWebVars, chatVars, recursiveVars,
                  clientVars>>

\* what the client leaves alone
notClient == <<agentVars, routeVars, limiterVars, searchWebVars, chatVars, recursiveVars,
               deepAgentVars>>

\* A call of the recursive deepResearch is named by its path: <<>> is the
\* call from outside, c \o <<t>> is the t-th sub-query task of call c and
\* also the nested call that task makes.
CallPaths == SeqsOf(1..MaxCallBreadth, 0, MaxCallDepth - 1)
TaskPaths == SeqsOf(1..MaxCallBreadth, 1, MaxCallDepth)
NoResult == [learnings |-> {}, visitedUrls |-> {}]
NoCall == [st |-> "none", depth |-> 0, breadth |-> 0, learnings |-> {},
           visitedUrls |-> {}, n |-> 0, result |-> NoResult]
NoTask == [st |-> "none", result |-> NoResult]

\* the concurrent callers of searchWithRateLimit / extractWithRateLimit
Workers == 1..ConcurrencyLimit

\* unified-research-agent.ts:691-692
depth == ClampDepth(IF options.depth = 0 THEN DefaultDepth ELSE options.depth)
breadth == ClampBreadth(IF options.breadth = 0 THEN DefaultBreadth ELSE options.breadth)

NoSearch == [results |-> <<>>, sources |-> <<>>, success |-> TRUE]
NoExtract == [learnings |-> 0, followUpQuestions |-> <<>>, llmCalled |-> FALSE,
              failed |-> FALSE]

\* unified-research-agent.ts:531-541
InitialProgress ==
    [full |-> TRUE, currentDepth |-> 0, currentBreadth |-> 0,
     completedQueries |-> 0, totalQueries |-> 0]

Requests ==
    {[isDeepResearch |-> TRUE, depth |-> d, breadth |-> b] :
        d \in 1..MaxDepth, b \in 1..MaxBreadth}
    \cup {[isDeepResearch |-> FALSE, depth |-> DefaultDepth, breadth |-> DefaultBreadth]}

Init ==
    /\ userQuery \in Queries
    /\ options \in Requests
    /\ pc = "start"
    /\ allLearnings = <<>>
    /\ visitedQueries = {}
    /\ visitedUrls = {}
    /\ allSources = <<>>
    /\ progressData = InitialProgress
    /\ currentDepth = 1
    /\ queriesToProcess = <<>>
    /\ currentLevelQueries = <<>>
    /\ nextLevelQueries = <<>>
    /\ i = 1
    /\ generatedQueries = <<>>
    /\ plannerKind = "none"
    /\ j = 1
    /\ found = NoSearch
    /\ k = 1
    /\ extracted = NoExtract
    /\ m = 1
    /\ chunk = NoChunk
    /\ lines = <<>>
    /\ writerClosed = FALSE
    /\ aborted = FALSE
    /\ planCalls = 0
    /\ searchCalls = 0
    /\ searched = [s \in AllStrings |-> 0]
    /\ failedSearches = {}
    /\ callsAfterAbort = FALSE
    /\ now = 0
    /\ requestCount = 0
    /\ lastResetTime = 0
    /\ currentBackoffMs = BACKOFF_INITIAL_MS
    /\ worker = [w \in Workers |-> "idle"]
    /\ wake = [w \in Workers |-> 0]
    /\ requests = <<>>
    /\ signals = 0
    /\ attempts = [w \in Workers |-> 0]
    /\ swResponses = <<>>
    /\ swResult = NoSearch
    /\ chatPc = "idle"
    /\ apiKeyReloaded = FALSE
    /\ chatFetches = 0
    /\ chatLog = <<>>
    /\ rCall = [c \in CallPaths |-> NoCall]
    /\ rTask = [t \in TaskPaths |-> NoTask]
    /\ dStack = <<>>
    /\ dLog = <<>>
    /\ sentEvents = 0
    /\ unread = <<>>
    /\ applied = <<>>
    /\ writeFailed = FALSE
    /\ closeCalls = 0

\* The generator runs only while the route is waiting for its next chunk.
Running == chunk = NoChunk /\ ~writerClosed

\* an external call (search provider or LLM) is started in this step
CallMade == callsAfterAbort' = (callsAfterAbort \/ aborted)


(***************************************************************************)
(* doDeepResearch.                                                         *)
(***************************************************************************)
\* unified-research-agent.ts:549  the condition of the level loop
LoopCondition == Len(queriesToProcess) > 0 /\ currentDepth <= depth

\* unified-research-agent.ts:566  if (visitedQueries.has(currentQuery)) continue
AlreadyVisited(q) == q \in visitedQueries

\* unified-research-agent.ts:597  if (!visitedUrls.has(source.url))
IsNewUrl(url) == url \notin visitedUrls

\* Variant of AddPlanned that assigns instead of adding.
SetPlanned(p, generated) == [p EXCEPT !.totalQueries = Len(generated)]

\* unified-research-agent.ts:582  progressData.totalQueries += generatedQueries.length
AddPlanned(p, generated) == [p EXCEPT !.totalQueries = @ + Len(generated)]

\* Variant of CountCompleted that skips a sub-query whose search found nothing.
CountCompletedIfFound(p) ==
    IF found.success THEN [p EXCEPT !.completedQueries = @ + 1] ELSE p

\* unified-research-agent.ts:638  progressData.completedQueries++
CountCompleted(p) == [p EXCEPT !.completedQueries = @ + 1]

\* Variant of QueuedFollowUps that queues the follow-ups at the level of
\* the sub-query they come from.
QueuedFollowUpsSameLevel(followUpQuestions) ==
    IF currentDepth < depth
    THEN [n \in 1..Len(Take(followUpQuestions, breadth)) |->
            [query |-> followUpQuestions[n], depth |-> currentDepth]]
    ELSE <<>>

\* Variant of QueuedFollowUps without the test of the level.
QueuedFollowUpsAtAnyLevel(followUpQuestions) ==
    [n \in 1..Len(Take(followUpQuestions, breadth)) |->
        [query |-> followUpQuestions[n], depth |-> currentDepth + 1]]

\* unified-research-agent.ts:628-635  the follow-ups queued for the next level
QueuedFollowUps(followUpQuestions) ==
    IF currentDepth < depth
    THEN [n \in 1..Len(Take(followUpQuestions, breadth)) |->
            [query |-> followUpQuestions[n], depth |-> currentDepth + 1]]
    ELSE <<>>

\* processQueryStream 690-697 and doDeepResearch 521-547
StartDeep ==
    /\ pc = "start" /\ Running /\ options.isDeepResearch
    /\ pc' = "while"
    /\ currentDepth' = 1
    /\ queriesToProcess' = <<[query |-> userQuery, depth |-> 1]>>
    /\ progressData' = InitialProgress
    /\ UNCHANGED <<notAgent, userQuery, options, allLearnings, visitedQueries, visitedUrls, allSources,
                   currentLevelQueries, nextLevelQueries, i, generatedQueries, plannerKind, j,
                   found, k, extracted, m, chunk, lines, writerClosed, aborted,
                   planCalls, searchCalls, searched, failedSearches, callsAfterAbort>>

\* unified-research-agent.ts:549-560  head of one iteration of the level loop
LevelHead ==
    /\ pc = "while" /\ Running /\ LoopCondition
    /\ currentLevelQueries' = SelectSeq(queriesToProcess, LAMBDA q : q.depth = currentDepth)
    /\ queriesToProcess' = SelectSeq(queriesToProcess, LAMBDA q : q.depth > currentDepth)
    /\ progressData' = [progressData EXCEPT !.currentDepth = currentDepth]
    /\ lines' = ReportProgress(lines, TRUE, progressData')
    /\ nextLevelQueries' = <<>>
    /\ i' = 1
    /\ pc' = "for_i"
    /\ UNCHANGED <<notAgent, userQuery, options, allLearnings, visitedQueries, visitedUrls, allSources,
                   currentDepth, generatedQueries, plannerKind, j, found, k, extracted, m,
                   chunk, writerClosed, aborted, planCalls, searchCalls,
                   searched, failedSearches, callsAfterAbort>>

\* Variant of SkipVisited that does not advance the loop index.
SkipVisitedStuck ==
    /\ pc = "for_i" /\ Running /\ i <= Len(currentLevelQueries)
    /\ AlreadyVisited(currentLevelQueries[i].query)
    /\ UNCHANGED vars

\* unified-research-agent.ts:562-566  a frontier entry already processed
SkipVisited ==
    /\ pc = "for_i" /\ Running /\ i <= Len(currentLevelQueries)
    /\ AlreadyVisited(currentLevelQueries[i].query)
    /\ i' = i + 1
    /\ UNCHANGED <<notAgent, userQuery, options, pc, allLearnings, visitedQueries, visitedUrls, allSources,
                   progressData, currentDepth, queriesToProcess, currentLevelQueries,
                   nextLevelQueries, generatedQueries, plannerKind, j, found, k, extracted, m,
                   chunk, lines, writerClosed, aborted, planCalls, searchCalls,
                   searched, failedSearches, callsAfterAbort>>

\* unified-research-agent.ts:562-582  plan the SERP queries of one frontier entry
PlanTopic ==
    /\ pc = "for_i" /\ Running /\ i <= Len(currentLevelQueries)
    /\ ~AlreadyVisited(currentLevelQueries[i].query)
    /\ visitedQueries' = visitedQueries \cup {currentLevelQueries[i].query}
    /\ lines' = ReportProgress(lines, TRUE, progressData)
    /\ \E llm \in PlannerOutputs :
          /\ generatedQueries' = generateSerpQueries(currentLevelQueries[i].query, breadth, llm)
          /\ plannerKind' = llm.kind
    /\ planCalls' = planCalls + 1
    /\ CallMade
    /\ progressData' = AddPlanned(progressData, generatedQueries')
    /\ j' = 1
    /\ pc' = "for_j"
    /\ UNCHANGED <<notAgent, userQuery, options, allLearnings, visitedUrls, allSources, currentDepth,
                   queriesToProcess, currentLevelQueries, nextLevelQueries, i,
                   found, k, extracted, m, chunk, writerClosed, aborted,
                   searchCalls, searched, failedSearches>>

\* unified-research-agent.ts:644-648  the level is finished
LevelEnd ==
    /\ pc = "for_i" /\ Running /\ i > Len(currentLevelQueries)
    /\ queriesToProcess' = queriesToProcess \o nextLevelQueries
    /\ currentDepth' = currentDepth + 1
    /\ currentLevelQueries' = <<>> /\ nextLevelQueries' = <<>> /\ i' = 1
    /\ pc' = "while"
    /\ UNCHANGED <<notAgent, userQuery, options, allLearnings, visitedQueries, visitedUrls, allSources,
                   progressData, generatedQueries, plannerKind, j, found, k, extracted, m,
                   chunk, lines, writerClosed, aborted, planCalls, searchCalls,
                   searched, failedSearches, callsAfterAbort>>

\* unified-research-agent.ts:585  the generated queries of the entry are done
TopicDone ==
    /\ pc = "for_j" /\ Running /\ j > Len(generatedQueries)
    /\ i' = i + 1
    /\ generatedQueries' = <<>> /\ plannerKind' = "none" /\ j' = 1
    /\ pc' = "for_i"
    /\ UNCHANGED <<notAgent, userQuery, options, allLearnings, visitedQueries, visitedUrls, allSources,
                   progressData, currentDepth, queriesToProcess, currentLevelQueries,
                   nextLevelQueries, found, k, extracted, m, chunk, lines,
                   writerClosed, aborted, planCalls, searchCalls, searched, failedSearches,
                   callsAfterAbort>>

\* unified-research-agent.ts:585-593  search one generated query
Search ==
    /\ pc = "for_j" /\ Running /\ j <= Len(generatedQueries)
    /\ progressData' = [progressData EXCEPT !.currentBreadth = j]
    /\ \E answers \in ProviderAnswers :
          LET res == searchWeb(answers) IN
          /\ found' = [results |-> res.results, sources |-> res.sources,
                        success |-> res.success]
          /\ lines' = SearchReports(ReportProgress(lines, TRUE, progressData'), TRUE, res)
          /\ failedSearches' = IF res.success THEN failedSearches
                                ELSE failedSearches \cup {searchCalls + 1}
    /\ searchCalls' = searchCalls + 1
    /\ searched' = [searched EXCEPT ![generatedQueries[j]] = @ + 1]
    /\ CallMade
    /\ k' = 1
    /\ pc' = "sources"
    /\ UNCHANGED <<notAgent, userQuery, options, allLearnings, visitedQueries, visitedUrls, allSources,
                   currentDepth, queriesToProcess, currentLevelQueries,
                   nextLevelQueries, i, generatedQueries, plannerKind, j, extracted, m, chunk,
                   writerClosed, aborted, planCalls>>

\* unified-research-agent.ts:596-597  a source whose url was seen before
SkipSeenSource ==
    /\ pc = "sources" /\ Running /\ k <= Len(found.sources)
    /\ ~IsNewUrl(found.sources[k])
    /\ k' = k + 1
    /\ UNCHANGED <<notAgent, userQuery, options, pc, allLearnings, visitedQueries, visitedUrls, allSources,
                   progressData, currentDepth, queriesToProcess, currentLevelQueries,
                   nextLevelQueries, i, generatedQueries, plannerKind, j, found, extracted, m,
                   chunk, lines, writerClosed, aborted, planCalls, searchCalls,
                   searched, failedSearches, callsAfterAbort>>

\* unified-research-agent.ts:596-606  a new source: record it and yield it
YieldSource ==
    /\ pc = "sources" /\ Running /\ k <= Len(found.sources)
    /\ IsNewUrl(found.sources[k])
    /\ visitedUrls' = visitedUrls \cup {found.sources[k]}
    /\ allSources' = Append(allSources, found.sources[k])
    /\ chunk' = Ev("sources", searchCalls, <<found.sources[k]>>)
    /\ k' = k + 1
    /\ UNCHANGED <<notAgent, userQuery, options, pc, allLearnings, visitedQueries, progressData,
                   currentDepth, queriesToProcess, currentLevelQueries,
                   nextLevelQueries, i, generatedQueries, plannerKind, j, found, extracted, m,
                   lines, writerClosed, aborted, planCalls, searchCalls, searched, failedSearches,
                   callsAfterAbort>>

\* unified-research-agent.ts:609-615  extract learnings and follow-ups
Process ==
    /\ pc = "sources" /\ Running /\ k > Len(found.sources)
    /\ \E llm \in ExtractOutputs :
          extracted' = processSerpResult(found.results, NumLearnings(depth),
                                         NumFollowUps(depth), llm)
    /\ callsAfterAbort' = (callsAfterAbort \/ (aborted /\ extracted'.llmCalled))
    /\ m' = 1
    /\ pc' = "learnings"
    /\ UNCHANGED <<notAgent, userQuery, options, allLearnings, visitedQueries, visitedUrls, allSources,
                   progressData, currentDepth, queriesToProcess, currentLevelQueries,
                   nextLevelQueries, i, generatedQueries, plannerKind, j, found, k, chunk, lines,
                   writerClosed, aborted, planCalls, searchCalls, searched, failedSearches>>

\* unified-research-agent.ts:618-625  record one learning and yield it
YieldLearning ==
    /\ pc = "learnings" /\ Running /\ m <= extracted.learnings
    /\ allLearnings' = Append(allLearnings, searchCalls)
    /\ chunk' = Ev("learning", searchCalls, <<>>)
    /\ m' = m + 1
    /\ UNCHANGED <<notAgent, userQuery, options, pc, visitedQueries, visitedUrls, allSources, progressData,
                   currentDepth, queriesToProcess, currentLevelQueries,
                   nextLevelQueries, i, generatedQueries, plannerKind, j, found, k, extracted,
                   lines, writerClosed, aborted, planCalls, searchCalls, searched, failedSearches,
                   callsAfterAbort>>

\* unified-research-agent.ts:627-641  queue the follow-ups, count the sub-query
FinishSubQuery ==
    /\ pc = "learnings" /\ Running /\ m > extracted.learnings
    /\ nextLevelQueries' = nextLevelQueries \o QueuedFollowUps(extracted.followUpQuestions)
    /\ progressData' = CountCompleted(progressData)
    /\ lines' = ReportProgress(lines, TRUE, progressData')
    /\ j' = j + 1
    /\ found' = NoSearch /\ k' = 1
    /\ extracted' = NoExtract /\ m' = 1
    /\ pc' = "for_j"
    /\ UNCHANGED <<notAgent, userQuery, options, allLearnings, visitedQueries, visitedUrls, allSources,
                   currentDepth, queriesToProcess, currentLevelQueries, i,
                   generatedQueries, plannerKind, chunk, writerClosed, aborted, planCalls,
                   searchCalls, searched, failedSearches, callsAfterAbort>>

\* Variant of generateFinalReport whose fallback text is the apology of
\* generateResearchReport, without the learnings.
generateFinalReportApology(learnings, sources, llmOk) ==
    [Ev("content", 0, <<>>) EXCEPT !.fallback = ~llmOk]

\* unified-research-agent.ts:423-461 generateFinalReport: the text of the LLM,
\* or, when the chat request fails, the fallback text (fallback = TRUE),
\* which lists every element of learnings.  Neither text gets a Sources
\* section: the sources argument is not used.
generateFinalReport(learnings, sources, llmOk) ==
    IF llmOk
    THEN Ev("content", 0, <<>>)
    ELSE [Ev("content", 0, <<>>) EXCEPT !.fallback = TRUE, !.learnings = learnings]

\* Variant of FinalReport that writes the report when the first level is
\* finished and lets the level loop go on.
FinalReportAfterFirstLevel ==
    /\ pc = "for_i" /\ Running /\ i > Len(currentLevelQueries)
    /\ currentDepth = 1
    /\ \A p \in 1..Len(lines) : lines[p].type # "content"
    /\ lines' = ReportProgress(lines, TRUE, progressData)
    /\ \E llmOk \in BOOLEAN :
          chunk' = generateFinalReport(allLearnings, allSources, llmOk)
    /\ CallMade
    /\ UNCHANGED <<notAgent, userQuery, options, pc, allLearnings, visitedQueries, visitedUrls,
                   allSources, progressData, currentDepth, queriesToProcess,
                   currentLevelQueries, nextLevelQueries, i, generatedQueries,
                   plannerKind, j, found, k, extracted, m, writerClosed, aborted,
                   planCalls, searchCalls, searched, failedSearches>>

\* unified-research-agent.ts:651-662  write the report and yield it
FinalReport ==
    /\ pc = "while" /\ Running /\ ~LoopCondition
    /\ lines' = ReportProgress(lines, TRUE, progressData)
    /\ \E llmOk \in BOOLEAN :
          chunk' = generateFinalReport(allLearnings, allSources, llmOk)
    /\ CallMade
    /\ pc' = "complete"
    /\ UNCHANGED <<notAgent, userQuery, options, allLearnings, visitedQueries, visitedUrls, allSources,
                   progressData, currentDepth, queriesToProcess, currentLevelQueries,
                   nextLevelQueries, i, generatedQueries, plannerKind, j, found, k, extracted, m,
                   writerClosed, aborted, planCalls, searchCalls, searched, failedSearches>>

\* unified-research-agent.ts:664-667  the last progress report
Complete ==
    /\ pc = "complete" /\ Running
    /\ lines' = ReportProgress(lines, TRUE, progressData)
    /\ pc' = "done"
    /\ UNCHANGED <<notAgent, userQuery, options, allLearnings, visitedQueries, visitedUrls, allSources,
                   progressData, currentDepth, queriesToProcess, currentLevelQueries,
                   nextLevelQueries, i, generatedQueries, plannerKind, j, found, k, extracted, m,
                   chunk, writerClosed, aborted, planCalls, searchCalls, searched, failedSearches,
                   callsAfterAbort>>

(***************************************************************************)
(* doRegularResearch.                                                      *)
(***************************************************************************)
\* unified-research-agent.ts:486-489  one search for the user's query
RegularSearch ==
    /\ pc = "start" /\ Running /\ ~options.isDeepResearch
    /\ \E answers \in RegularAnswers :
          LET res == searchWeb(answers) IN
          /\ found' = [results |-> res.results, sources |-> res.sources,
                        success |-> res.success]
          /\ lines' = SearchReports(ReportProgress(lines, FALSE, Partial), FALSE, res)
          /\ failedSearches' = IF res.success THEN failedSearches
                                ELSE failedSearches \cup {searchCalls + 1}
    /\ searchCalls' = searchCalls + 1
    /\ searched' = [searched EXCEPT ![userQuery] = @ + 1]
    /\ CallMade
    /\ pc' = "r_results"
    /\ UNCHANGED <<notAgent, userQuery, options, allLearnings, visitedQueries, visitedUrls, allSources,
                   progressData, currentDepth, queriesToProcess, currentLevelQueries,
                   nextLevelQueries, i, generatedQueries, plannerKind, j, k, extracted, m, chunk,
                   writerClosed, aborted, planCalls>>

\* unified-research-agent.ts:492-496  yield the formatted results, if any;
\* 695-711: when formatSearchResults throws, processQueryStream catches the
\* exception, yields an error event and returns
RegularResults ==
    /\ pc = "r_results" /\ Running
    /\ IF Len(found.results) > 0
       THEN IF FormatThrows(found.results)
            THEN chunk' = Ev("error", 0, <<>>) /\ pc' = "done"
            ELSE chunk' = Ev("search_results", 1, <<>>) /\ pc' = "r_sources"
       ELSE chunk' = chunk /\ pc' = "r_report"
    /\ UNCHANGED <<notAgent, userQuery, options, allLearnings, visitedQueries, visitedUrls, allSources,
                   progressData, currentDepth, queriesToProcess, currentLevelQueries,
                   nextLevelQueries, i, generatedQueries, plannerKind, j, found, k, extracted, m,
                   lines, writerClosed, aborted, planCalls, searchCalls, searched, failedSearches,
                   callsAfterAbort>>

\* unified-research-agent.ts:498-502  yield all sources of the search in one event
RegularSources ==
    /\ pc = "r_sources" /\ Running
    /\ chunk' = Ev("sources", 1, found.sources)
    /\ pc' = "r_report"
    /\ UNCHANGED <<notAgent, userQuery, options, allLearnings, visitedQueries, visitedUrls, allSources,
                   progressData, currentDepth, queriesToProcess, currentLevelQueries,
                   nextLevelQueries, i, generatedQueries, plannerKind, j, found, k, extracted, m,
                   lines, writerClosed, aborted, planCalls, searchCalls, searched, failedSearches,
                   callsAfterAbort>>

\* unified-research-agent.ts:375-418 generateResearchReport: the text of the
\* LLM, or the apology text when the chat request fails
generateResearchReport(llmOk) == [Ev("content", 0, <<>>) EXCEPT !.fallback = ~llmOk]

\* unified-research-agent.ts:505-515  report on the results and yield the report
RegularReport ==
    /\ pc = "r_report" /\ Running
    /\ lines' = ReportN(lines, FALSE, 3)
    /\ \E llmOk \in BOOLEAN : chunk' = generateResearchReport(llmOk)
    /\ CallMade
    /\ pc' = "done"
    /\ UNCHANGED <<notAgent, userQuery, options, allLearnings, visitedQueries, visitedUrls, allSources,
                   progressData, currentDepth, queriesToProcess, currentLevelQueries,
                   nextLevelQueries, i, generatedQueries, plannerKind, j, found, k, extracted, m,
                   writerClosed, aborted, planCalls, searchCalls, searched, failedSearches>>

(***************************************************************************)
(* The POST handler of /api/research.                                      *)
(***************************************************************************)
\* route.ts:200-207  write the chunk the generator yielded, ask for the next
RouteWrite ==
    /\ chunk # NoChunk /\ ~writerClosed
    /\ lines' = Append(lines, chunk)
    /\ chunk' = NoChunk
    /\ UNCHANGED <<notAgent, userQuery, options, pc, allLearnings, visitedQueries, visitedUrls, allSources,
                   progressData, currentDepth, queriesToProcess, currentLevelQueries,
                   nextLevelQueries, i, generatedQueries, plannerKind, j, found, k, extracted, m,
                   writerClosed, aborted, planCalls, searchCalls, searched, failedSearches,
                   callsAfterAbort>>

\* route.ts:208-232  the generator has returned: close the writer
RouteClose ==
    /\ pc = "done" /\ chunk = NoChunk /\ ~writerClosed
    /\ writerClosed' = TRUE
    /\ closeCalls' = closeCalls + 1
    /\ UNCHANGED <<notSession, writeFailed, userQuery, options, pc, allLearnings, visitedQueries, visitedUrls, allSources,
                   progressData, currentDepth, queriesToProcess, currentLevelQueries,
                   nextLevelQueries, i, generatedQueries, plannerKind, j, found, k, extracted, m,
                   chunk, lines, aborted, planCalls, searchCalls, searched, failedSearches,
                   callsAfterAbort>>

\* Variant of RouteWriteFails that goes on with the loop after the failure.
RouteWriteFailsGoesOn ==
    /\ chunk # NoChunk /\ ~writerClosed
    /\ writeFailed' = TRUE
    /\ chunk' = NoChunk
    /\ UNCHANGED <<notSession, closeCalls, userQuery, options, pc, allLearnings,
                   visitedQueries, visitedUrls, allSources,
                   progressData, currentDepth, queriesToProcess, currentLevelQueries,
                   nextLevelQueries, i, generatedQueries, plannerKind, j, found, k, extracted, m,
                   lines, writerClosed, aborted, planCalls, searchCalls, searched,
                   failedSearches, callsAfterAbort>>

\* route.ts:200-207  the write of the chunk fails (the client has gone):
\* break leaves the loop, which returns the generator
RouteWriteFails ==
    /\ chunk # NoChunk /\ ~writerClosed
    /\ writeFailed' = TRUE
    /\ chunk' = NoChunk
    /\ pc' = "done"
    /\ UNCHANGED <<notSession, closeCalls, userQuery, options, allLearnings,
                   visitedQueries, visitedUrls, allSources,
                   progressData, currentDepth, queriesToProcess, currentLevelQueries,
                   nextLevelQueries, i, generatedQueries, plannerKind, j, found, k, extracted, m,
                   lines, writerClosed, aborted, planCalls, searchCalls, searched,
                   failedSearches, callsAfterAbort>>

\* unified-research-agent.ts:64-69  abort(), called by the owner of the agent
\* while the session runs
Abort ==
    /\ pc # "start" /\ ~writerClosed /\ ~aborted
    /\ aborted' = TRUE
    /\ UNCHANGED <<notAgent, userQuery, options, pc, allLearnings, visitedQueries, visitedUrls, allSources,
                   progressData, currentDepth, queriesToProcess, currentLevelQueries,
                   nextLevelQueries, i, generatedQueries, plannerKind, j, found, k, extracted, m,
                   chunk, lines, writerClosed, planCalls, searchCalls, searched, failedSearches,
                   callsAfterAbort>>

Next ==
    \/ StartDeep
    \/ LevelHead
    \/ SkipVisited
    \/ PlanTopic
    \/ LevelEnd
    \/ TopicDone
    \/ Search
    \/ SkipSeenSource
    \/ YieldSource
    \/ Process
    \/ YieldLearning
    \/ FinishSubQuery
    \/ FinalReport
    \/ Complete
    \/ RegularSearch
    \/ RegularResults
    \/ RegularSources
    \/ RegularReport
    \/ RouteWrite
    \/ RouteClose

\* the session as the route runs it: nothing calls abort()
Spec == Init /\ [][Next]_vars

\* the session of an agent whose owner may call abort() at any time
NextAbort == Next \/ Abort
SpecAbort == Init /\ [][NextAbort]_vars

\* the session when every call returns and every continuation is run
SpecFair == Spec /\ WF_vars(Next)

\* the session of a client that may go away: any chunk write may fail
NextRoute == Next \/ RouteWriteFails
SpecRoute == Init /\ [][NextRoute]_vars /\ WF_vars(NextRoute)

(***************************************************************************)
(* The rate limiter of lib/openrouter.ts.  Its state is module-level and   *)
(* shared by all callers.  A caller runs searchWithRateLimit or            *)
(* extractWithRateLimit, which have the same body: waitForRateLimit, then  *)
(* requestCount++ and the provider request; after `await waitForRateLimit` *)
(* other callers may run before the caller goes on.                        *)
(***************************************************************************)
\* lib/openrouter.ts:157-160
NextBackoff(b) == Min(b * BACKOFF_MULTIPLIER, BACKOFF_MAX_MS)

\* lib/openrouter.ts:167-170, 188-191  a caller enters the wrapper
LimiterCall(w) ==
    /\ worker[w] = "idle"
    /\ Len(requests) < MaxRequests
    /\ worker' = [worker EXCEPT ![w] = "wait"]
    /\ attempts' = [attempts EXCEPT ![w] = 0]
    /\ UNCHANGED <<notLimiter, now, requestCount, lastResetTime, currentBackoffMs,
                   wake, requests, signals>>

\* lib/openrouter.ts:141-156  waitForRateLimit up to its return or its timer
waitForRateLimit(w) ==
    /\ worker[w] = "wait"
    /\ IF now - lastResetTime >= WindowMs
       THEN /\ requestCount' = 0
            /\ lastResetTime' = now
            /\ currentBackoffMs' = BACKOFF_INITIAL_MS
            /\ signals' = 0
            /\ worker' = [worker EXCEPT ![w] = "acquired"]
            /\ wake' = wake
       ELSE IF requestCount >= MAX_REQUESTS_PER_MINUTE
            THEN /\ worker' = [worker EXCEPT ![w] = "backoff"]
                 /\ wake' = [wake EXCEPT ![w] = now + currentBackoffMs]
                 /\ UNCHANGED <<requestCount, lastResetTime, currentBackoffMs, signals>>
            ELSE /\ worker' = [worker EXCEPT ![w] = "acquired"]
                 /\ UNCHANGED <<requestCount, lastResetTime, currentBackoffMs,
                                signals, wake>>
    /\ UNCHANGED <<notLimiter, now, requests, attempts>>

\* lib/openrouter.ts:156-163  the backoff timer of waitForRateLimit has fired
BackoffOver(w) ==
    /\ worker[w] = "backoff" /\ now >= wake[w]
    /\ currentBackoffMs' = NextBackoff(currentBackoffMs)
    /\ requestCount' = 0
    /\ lastResetTime' = now
    /\ worker' = [worker EXCEPT ![w] = "acquired"]
    /\ UNCHANGED <<notLimiter, now, wake, requests, signals, attempts>>

\* lib/openrouter.ts:171-172, 192-193  requestCount++ and the provider request
StartRequest(w) ==
    /\ worker[w] = "acquired"
    /\ requestCount' = requestCount + 1
    /\ requests' = Append(requests, now)
    /\ worker' = [worker EXCEPT ![w] = "request"]
    /\ attempts' = [attempts EXCEPT ![w] = @ + 1]
    /\ UNCHANGED <<notLimiter, now, lastResetTime, currentBackoffMs, wake, signals>>

\* lib/openrouter.ts:172, 183  the request returns a result or an error other
\* than a rate-limit error: the wrapper returns or throws
RequestDone(w) ==
    /\ worker[w] = "request"
    /\ worker' = [worker EXCEPT ![w] = "idle"]
    /\ UNCHANGED <<notLimiter, now, requestCount, lastResetTime, currentBackoffMs,
                   wake, requests, signals, attempts>>

\* lib/openrouter.ts:174-181, 195-202  the request fails with status 429:
\* wait for the time the message names, else for currentBackoffMs, and retry
RateLimited(w) ==
    /\ worker[w] = "request"
    /\ Len(requests) < MaxRequests
    /\ \E hint \in 0..MaxRetryAfterS :
          LET waitTime == IF hint > 0 THEN hint * 1000 ELSE currentBackoffMs IN
          wake' = [wake EXCEPT ![w] = now + waitTime]
    /\ signals' = signals + 1
    /\ worker' = [worker EXCEPT ![w] = "retry"]
    /\ UNCHANGED <<notLimiter, now, requestCount, lastResetTime, currentBackoffMs,
                   requests, attempts>>

\* lib/openrouter.ts:180-181, 201-202  the retry timer has fired: continue
RetryWaitOver(w) ==
    /\ worker[w] = "retry" /\ now >= wake[w]
    /\ worker' = [worker EXCEPT ![w] = "wait"]
    /\ UNCHANGED <<notLimiter, now, requestCount, lastResetTime, currentBackoffMs,
                   wake, requests, signals, attempts>>

\* Time passes: up to the next timer that is due, or for a whole window.
TimePasses ==
    /\ \E t \in {wake[w] : w \in {x \in Workers : worker[x] \in {"backoff", "retry"}}}
                \cup {now + WindowMs} :
          /\ t > now /\ t <= MaxTimeMs
          /\ now' = t
    /\ UNCHANGED <<notLimiter, requestCount, lastResetTime, currentBackoffMs, worker,
                   wake, requests, signals, attempts>>

NextLimiter ==
    \/ \E w \in Workers : LimiterCall(w)
    \/ \E w \in Workers : waitForRateLimit(w)
    \/ \E w \in Workers : BackoffOver(w)
    \/ \E w \in Workers : StartRequest(w)
    \/ \E w \in Workers : RequestDone(w)
    \/ \E w \in Workers : RateLimited(w)
    \/ \E w \in Workers : RetryWaitOver(w)
    \/ TimePasses

\* the callers of the rate limiter, with no research session running
InitLimiter == Init /\ userQuery = UserQuery /\ ~options.isDeepResearch
SpecLimiter == InitLimiter /\ [][NextLimiter]_vars

(***************************************************************************)
(* searchWeb on its own, for every sequence of provider answers: an        *)
(* answer is an error or a data array whose documents have a url of any    *)
(* kind.  One answer more than searchWeb can use is drawn.                 *)
(***************************************************************************)
AnyProviderAnswers ==
    [1..(maxRetries + 2) ->
        {ProviderError} \cup {ProviderData(d) : d \in SeqsOf(AllUrls, 0, MaxResults)}]

\* unified-research-agent.ts:91-201  one call of searchWeb
SearchWebCall ==
    /\ swResponses = <<>>
    /\ \E responses \in AnyProviderAnswers :
          /\ swResponses' = responses
          /\ swResult' = searchWeb(responses)
    /\ UNCHANGED notSearchWeb

\* no research session and no caller of the rate limiter is running
NoSession == Init /\ userQuery = UserQuery /\ ~options.isDeepResearch

SpecSearchWeb == NoSession /\ [][SearchWebCall]_vars

(***************************************************************************)
(* The chat client: CustomOpenRouterClient.chat of lib/clients.ts, which   *)
(* OpenRouterProvider.chat repeats.                                        *)
(***************************************************************************)
\* what the provider answers to a chat request: a completion, a body
\* without choices, an error status, or nothing within 60 seconds
ChatAnswers == {"200", "200_no_choices", "401", "429", "500", "timeout"}

\* clients.ts:67-82  chat is called: the key is there, the request is built
ChatCall ==
    /\ chatPc = "idle" /\ Len(chatLog) < MaxChats
    /\ chatPc' = "fetch"
    /\ chatFetches' = 0
    /\ apiKeyReloaded' = FALSE
    /\ UNCHANGED <<notChat, chatLog>>

\* clients.ts:88-172  the request is sent and answered: the content is
\* returned, or the error is thrown to the caller; a 401 reloads the key
\* (119-122) before the throw at line 144
ChatFetch ==
    /\ chatPc = "fetch"
    /\ \E answer \in ChatAnswers :
          LET reloaded == (answer = "401") IN
          /\ apiKeyReloaded' = reloaded
          /\ chatLog' = Append(chatLog,
                [answer |-> answer, fetches |-> chatFetches + 1,
                 reloaded |-> reloaded, threw |-> answer # "200"])
    /\ chatFetches' = chatFetches + 1
    /\ chatPc' = "idle"
    /\ UNCHANGED notChat

NextChat == ChatCall \/ ChatFetch

SpecChat == NoSession /\ [][NextChat]_vars

(***************************************************************************)
(* The recursive deepResearch of lib/openrouter.ts.  Every call makes its  *)
(* own pLimit(ConcurrencyLimit) and runs one task per SERP query in it; a  *)
(* task searches, extracts and, while depth remains, awaits a nested call. *)
(***************************************************************************)
Parent(t) == SubSeq(t, 1, Len(t) - 1)
TasksOf(c) == {t \in TaskPaths : Parent(t) = c /\ t[Len(t)] <= rCall[c].n}

\* p-limit: the tasks of call c that hold one of its slots
Active(c) == {t \in TasksOf(c) : rTask[t].st \in {"search", "process", "nested"}}

\* what results a caller may pass in
PassedIn == {{}, {<<"earlier", <<>>>>}}

\* lib/openrouter.ts:413-427  deepResearch is called from outside
CallDeepResearch ==
    /\ rCall[<<>>].st = "none"
    /\ \E d \in 1..MaxCallDepth, b \in 1..MaxCallBreadth, passed \in PassedIn :
          rCall' = [rCall EXCEPT ![<<>>] =
                      [NoCall EXCEPT !.st = "planning", !.depth = d, !.breadth = b,
                                     !.learnings = passed, !.visitedUrls = passed]]
    /\ UNCHANGED <<notRecursive, rTask>>

\* lib/openrouter.ts:442-453, 210-250  generateSerpQueries returns at most
\* numQueries = breadth queries; each becomes a task queued in limit
PlanQueries(c) ==
    /\ rCall[c].st = "planning"
    /\ \E n \in 0..rCall[c].breadth :
          /\ rCall' = [rCall EXCEPT ![c].st = "running", ![c].n = n]
          /\ rTask' = [t \in TaskPaths |->
                         IF Parent(t) = c /\ t[Len(t)] <= n
                         THEN [NoTask EXCEPT !.st = "waiting"] ELSE rTask[t]]
    /\ UNCHANGED notRecursive

\* lib/openrouter.ts:442  generateObject throws: the call rejects
PlanThrows(c) ==
    /\ rCall[c].st = "planning"
    /\ rCall' = [rCall EXCEPT ![c].st = "threw"]
    /\ UNCHANGED <<notRecursive, rTask>>

\* lib/openrouter.ts:455-461  limit starts the next queued task when fewer
\* than ConcurrencyLimit of this call's tasks run: the search is sent
StartTask(t) ==
    /\ rTask[t].st = "waiting"
    /\ \A u \in TasksOf(Parent(t)) : u[Len(u)] < t[Len(t)] => rTask[u].st # "waiting"
    /\ Cardinality(Active(Parent(t))) < ConcurrencyLimit
    /\ rTask' = [rTask EXCEPT ![t].st = "search"]
    /\ UNCHANGED <<notRecursive, rCall>>

\* lib/openrouter.ts:459-461, 513-526  the search returns, or throws and
\* the task ends with empty results
SearchReturns(t) ==
    /\ rTask[t].st = "search"
    /\ \/ rTask' = [rTask EXCEPT ![t].st = "process"]
       \/ rTask' = [rTask EXCEPT ![t] = [st |-> "returned", result |-> NoResult]]
    /\ UNCHANGED <<notRecursive, rCall>>

\* lib/openrouter.ts:463-512  processSerpResult returns: the task adds its
\* learnings and urls to those passed to the call, then calls deepResearch
\* with them (newDepth > 0) or returns them
ProcessReturns(t) ==
    /\ rTask[t].st = "process"
    /\ LET c == Parent(t)
           newLearnings == rCall[c].learnings \cup {<<"learning", t>>}
           newUrls == rCall[c].visitedUrls \cup {<<"url", t>>}
           newBreadth == Max(1, (rCall[c].breadth * 8) \div 10)
           newDepth == rCall[c].depth - 1
       IN IF newDepth > 0
          THEN /\ rCall' = [rCall EXCEPT ![t] =
                               [NoCall EXCEPT !.st = "planning", !.depth = newDepth,
                                              !.breadth = newBreadth,
                                              !.learnings = newLearnings,
                                              !.visitedUrls = newUrls]]
               /\ rTask' = [rTask EXCEPT ![t].st = "nested"]
          ELSE /\ rTask' = [rTask EXCEPT ![t] =
                               [st |-> "returned",
                                result |-> [learnings |-> newLearnings,
                                            visitedUrls |-> newUrls]]]
               /\ rCall' = rCall
    /\ UNCHANGED notRecursive

\* lib/openrouter.ts:463-466, 513-526  processSerpResult throws: the task
\* ends with empty results
ProcessThrows(t) ==
    /\ rTask[t].st = "process"
    /\ rTask' = [rTask EXCEPT ![t] = [st |-> "returned", result |-> NoResult]]
    /\ UNCHANGED <<notRecursive, rCall>>

\* lib/openrouter.ts:494-501, 513-526  the nested call has ended: the task
\* returns its result, or empty results when it rejected
NestedReturns(t) ==
    /\ rTask[t].st = "nested"
    /\ rCall[t].st \in {"returned", "threw"}
    /\ rTask' = [rTask EXCEPT ![t] =
                   [st |-> "returned",
                    result |-> IF rCall[t].st = "returned" THEN rCall[t].result
                               ELSE NoResult]]
    /\ UNCHANGED <<notRecursive, rCall>>

\* lib/openrouter.ts:455, 531-534  Promise.all has all results: the call
\* returns their union
ReturnResults(c) ==
    /\ rCall[c].st = "running"
    /\ \A t \in TasksOf(c) : rTask[t].st = "returned"
    /\ rCall' = [rCall EXCEPT ![c].st = "returned",
                    ![c].result =
                       [learnings |-> UNION {rTask[t].result.learnings : t \in TasksOf(c)},
                        visitedUrls |-> UNION {rTask[t].result.visitedUrls : t \in TasksOf(c)}]]
    /\ UNCHANGED <<notRecursive, rTask>>

NextRecursive ==
    \/ CallDeepResearch
    \/ \E c \in CallPaths : PlanQueries(c)
    \/ \E c \in CallPaths : PlanThrows(c)
    \/ \E t \in TaskPaths : StartTask(t)
    \/ \E t \in TaskPaths : SearchReturns(t)
    \/ \E t \in TaskPaths : ProcessReturns(t)
    \/ \E t \in TaskPaths : ProcessThrows(t)
    \/ \E t \in TaskPaths : NestedReturns(t)
    \/ \E c \in CallPaths : ReturnResults(c)

SpecRecursive == NoSession /\ [][NextRecursive]_vars

(***************************************************************************)
(* DeepResearchAgent.deepResearch (unnamed/part_004): the recursion is     *)
(* sequential, so its calls form a stack.  A frame keeps the arguments,    *)
(* the number n of SERP queries, the loop index i and the number of        *)
(* queries the call has searched.                                          *)
(***************************************************************************)
Top == dStack[Len(dStack)]
Pop == SubSeq(dStack, 1, Len(dStack) - 1)
SetTop(frame) == [dStack EXCEPT ![Len(dStack)] = frame]
\* the call on top of the stack returns to its caller
Returned(frame) == Append(dLog, [depth |-> frame.depth, n |-> frame.n,
                                 searched |-> frame.searched])

\* part_004:477  runDeepResearch calls deepResearch(query, breadth, depth)
DeepAgentCall ==
    /\ dStack = <<>> /\ dLog = <<>>
    /\ \E b \in 1..MaxCallBreadth, d \in 1..MaxCallDepth :
          dStack' = <<[st |-> "plan", breadth |-> b, depth |-> d, n |-> 0, i |-> 0,
                       searched |-> 0]>>
    /\ UNCHANGED <<notDeepAgent, dLog>>

\* part_004:366-371  generateSerpQueries returns at most breadth queries
DeepAgentPlan ==
    /\ dStack # <<>> /\ Top.st = "plan"
    /\ \E n \in 0..Top.breadth : dStack' = SetTop([Top EXCEPT !.st = "loop", !.n = n])
    /\ UNCHANGED <<notDeepAgent, dLog>>

\* part_004:373-435  one iteration of the loop over the SERP queries: the
\* query is searched and processed; then the call calls itself (421-427),
\* or returns what it has (433-435)
DeepAgentQuery ==
    /\ dStack # <<>> /\ Top.st = "loop" /\ Top.i < Top.n
    /\ LET newBreadth == (Top.breadth + 1) \div 2
           newDepth == Top.depth - 1
           searching == [Top EXCEPT !.searched = @ + 1]
       IN \E followUps \in BOOLEAN :
             IF newDepth > 0 /\ followUps
             THEN /\ dStack' = Append(SetTop([searching EXCEPT !.st = "nested"]),
                                      [st |-> "plan", breadth |-> newBreadth,
                                       depth |-> newDepth, n |-> 0, i |-> 0,
                                       searched |-> 0])
                  /\ dLog' = dLog
             ELSE /\ dStack' = Pop
                  /\ dLog' = Returned(searching)
    /\ UNCHANGED notDeepAgent

\* part_004:382-395, 436-443  the iteration throws (the progress callback
\* throws): the loop goes on with the next query
DeepAgentQueryThrows ==
    /\ dStack # <<>> /\ Top.st = "loop" /\ Top.i < Top.n
    /\ dStack' = SetTop([Top EXCEPT !.searched = @ + 1, !.i = @ + 1])
    /\ UNCHANGED <<notDeepAgent, dLog>>

\* part_004:429-430  the nested call has returned: return its result
DeepAgentReturnDeeper ==
    /\ dStack # <<>> /\ Top.st = "nested"
    /\ dStack' = Pop
    /\ dLog' = Returned(Top)
    /\ UNCHANGED notDeepAgent

\* part_004:446-447  the loop is over: return the learnings passed in
DeepAgentLoopEnd ==
    /\ dStack # <<>> /\ Top.st = "loop" /\ Top.i >= Top.n
    /\ dStack' = Pop
    /\ dLog' = Returned(Top)
    /\ UNCHANGED notDeepAgent

NextDeepAgent ==
    \/ DeepAgentCall
    \/ DeepAgentPlan
    \/ DeepAgentQuery
    \/ DeepAgentQueryThrows
    \/ DeepAgentReturnDeeper
    \/ DeepAgentLoopEnd

SpecDeepAgent == NoSession /\ [][NextDeepAgent]_vars

(***************************************************************************)
(* The client: Research.handleSubmit reads the response body chunk by      *)
(* chunk and gives each chunk to processStreamData.  The JSON text of      *)
(* event n is the two bytes <<n, 1>>, <<n, 2>>; its line ends with NL.     *)
(***************************************************************************)
NL == <<0, 0>>
LineOf(n) == << <<n, 1>>, <<n, 2>>, NL >>

RECURSIVE BodyOf(_)
BodyOf(n) == IF n = 0 THEN <<>> ELSE BodyOf(n - 1) \o LineOf(n)

\* String.prototype.trim, on a text whose only white space is NL
RECURSIVE TrimStart(_)
TrimStart(data) ==
    IF data # <<>> /\ Head(data) = NL THEN TrimStart(Tail(data)) ELSE data
RECURSIVE TrimEnd(_)
TrimEnd(data) ==
    IF data # <<>> /\ data[Len(data)] = NL
    THEN TrimEnd(SubSeq(data, 1, Len(data) - 1)) ELSE data
Trim(data) == TrimEnd(TrimStart(data))

\* data.split('\n'): the messages between the NL of data
RECURSIVE SplitLines(_, _)
SplitLines(data, message) ==
    IF data = <<>> THEN <<message>>
    ELSE IF Head(data) = NL THEN <<message>> \o SplitLines(Tail(data), <<>>)
         ELSE SplitLines(Tail(data), Append(message, Head(data)))

\* JSON.parse(message) succeeds: the message is the whole text of an event
Parses(message) ==
    /\ Len(message) = 2
    /\ message[1][2] = 1 /\ message[2][2] = 2 /\ message[1][1] = message[2][1]

\* StreamProcessor.ts:17-233  the loop over the messages: an empty message
\* is skipped, a message that parses is applied, one that does not is
\* logged (the try is inside the loop) and the loop goes on
RECURSIVE AppliedFrom(_)
AppliedFrom(messages) ==
    IF messages = <<>> THEN <<>>
    ELSE IF Head(messages) = <<>> THEN AppliedFrom(Tail(messages))
         ELSE IF Parses(Head(messages))
              THEN <<Head(messages)[1][1]>> \o AppliedFrom(Tail(messages))
              ELSE AppliedFrom(Tail(messages))

\* StreamProcessor.ts:9-15  processStreamData: the events applied for one chunk
processStreamData(data) == AppliedFrom(SplitLines(Trim(data), <<>>))

\* Research.tsx:304-326  the request is answered with a body of event lines
ClientFetch ==
    /\ sentEvents = 0
    /\ \E n \in 1..MaxEvents :
          /\ sentEvents' = n
          /\ unread' = BodyOf(n)
    /\ applied' = <<>>
    /\ UNCHANGED notClient

\* Research.tsx:329-335  one reader.read(): the next bytes of the body, as
\* many as the transport delivers at once, are decoded and processed
ClientRead ==
    /\ unread # <<>>
    /\ \E len \in 1..Len(unread) :
          /\ applied' = applied \o processStreamData(SubSeq(unread, 1, len))
          /\ unread' = SubSeq(unread, len + 1, Len(unread))
    /\ UNCHANGED <<notClient, sentEvents>>

NextClient == ClientFetch \/ ClientRead

SpecClient == NoSession /\ [][NextClient]_vars

(***************************************************************************)
(* Properties.                                                             *)
(***************************************************************************)
IsDeep == options.isDeepResearch

LineNos == 1..Len(lines)

HasLine(type) == \E p \in LineNos : lines[p].type = type

\* a line that belongs to sub-query s
OfSubQuery(p, s) == lines[p].type \in {"sources", "learning"} /\ lines[p].sub = s

\* the urls of all sources lines, in the order of the body
RECURSIVE UrlsEmitted(_)
UrlsEmitted(ls) ==
    IF ls = <<>> THEN <<>>
    ELSE (IF Head(ls).type = "sources" THEN Head(ls).urls ELSE <<>>)
         \o UrlsEmitted(Tail(ls))

NoRepeat(sq) == \A a, b \in 1..Len(sq) : a # b => sq[a] # sq[b]

RECURSIVE Pow(_, _)
Pow(b, n) == IF n = 0 THEN 1 ELSE b * Pow(b, n - 1)

\* b^lo + ... + b^hi
RECURSIVE GeomSum(_, _, _)
GeomSum(b, lo, hi) == IF lo > hi THEN 0 ELSE Pow(b, lo) + GeomSum(b, lo + 1, hi)

\* trim and lowercase, on the strings of the model
Normalize(s) == IF s = " Q" THEN "q" ELSE s

\* the number of searches whose string is s after trim + lowercase
RECURSIVE SearchesIn(_, _)
SearchesIn(S, s) ==
    IF S = {} THEN 0
    ELSE LET t == CHOOSE x \in S : TRUE IN
         (IF Normalize(t) = Normalize(s) THEN searched[t] ELSE 0)
         + SearchesIn(S \ {t}, s)

\* the breadth a request is run with, on requests with breadth in 1..5
EffectiveBreadth == IF options.breadth < 2 THEN 2 ELSE options.breadth

\* C1: within one session (deep or shallow) no URL appears in more than one
\* emitted source: the urls of all sources lines are pairwise different.
C1_NoDuplicateSourceUrl == NoRepeat(UrlsEmitted(lines))

\* C2: in a deep session, for each sub-query, every sources line of the
\* sub-query precedes every learning line of it, and both precede the
\* progress line that reports the sub-query as completed.
C2_SubQueryOrder ==
    IsDeep =>
      \A p \in LineNos :
        lines[p].type \in {"sources", "learning"} =>
          \A r \in 1..(p - 1) :
            /\ ~(lines[p].type = "sources" /\ lines[r].type = "learning"
                   /\ lines[r].sub = lines[p].sub)
            /\ ~(lines[r].type = "progress" /\ lines[r].counts
                   /\ lines[r].completed >= lines[p].sub)

\* a sub-query with a sources line, a learning line and its completion report
C2_Witness ==
    /\ IsDeep /\ pc = "for_j" /\ searchCalls > 0
    /\ lines[Len(lines)].type = "progress" /\ lines[Len(lines)].counts
    /\ lines[Len(lines)].completed = searchCalls
    /\ \E q \in LineNos :
          /\ lines[q].type = "learning" /\ lines[q].sub = searchCalls
          /\ \E p \in 1..(q - 1) :
                lines[p].type = "sources" /\ lines[p].sub = searchCalls

\* C3: the body of a finished session starts with a start line, has a
\* content line before the complete line, and ends with the complete line.
C3_StartContentComplete ==
    writerClosed =>
      /\ Len(lines) >= 3
      /\ lines[1].type = "start"
      /\ lines[Len(lines)].type = "complete"
      /\ \E p \in LineNos : p < Len(lines) /\ lines[p].type = "content"

\* the progress lines that carry the counters, in the order of the body
CounterReports == SelectSeq(lines, LAMBDA l : l.type = "progress" /\ l.counts)

\* C4: on every progress line of a deep session that carries the counters,
\* completedQueries <= totalQueries, and from one such line to a later one
\* neither counter decreases.
C4_ProgressCounters ==
    IsDeep =>
      LET reports == CounterReports IN
      /\ progressData.completedQueries <= progressData.totalQueries
      /\ \A p \in 1..Len(reports) :
            /\ reports[p].completed <= reports[p].total
            /\ p > 1 => /\ reports[p - 1].completed <= reports[p].completed
                         /\ reports[p - 1].total <= reports[p].total

\* two progress lines between which both counters have grown
C4_Witness ==
    /\ IsDeep /\ writerClosed
    /\ LET reports == CounterReports IN
       \E p \in 1..Len(reports) :
          /\ 0 < reports[p].completed
          /\ reports[p].completed < reports[Len(reports)].completed
          /\ reports[p].total < reports[Len(reports)].total

\* C5: in a deep session no query string, compared after trim + lowercase,
\* is passed to the search provider more than once.
C5_NoQuerySearchedTwice ==
    IsDeep => \A s \in AllStrings : SearchesIn(AllStrings, s) <= 1

\* the number of lines of a type
RECURSIVE CountType(_, _)
CountType(ls, type) ==
    IF ls = <<>> THEN 0
    ELSE (IF Head(ls).type = type THEN 1 ELSE 0) + CountType(Tail(ls), type)

\* C6, first part: a sub-query whose search found nothing has no sources
\* line and no learning line.
C6_SearchFailureEmitsNothing ==
    \A s \in failedSearches : \A p \in LineNos : ~OfSubQuery(p, s)

\* C6, second part: a sub-query whose extraction failed has no learning line.
C6_ExtractionFailureEmitsNoLearning ==
    (pc = "learnings" /\ extracted.failed)
    => \A p \in LineNos : ~(lines[p].type = "learning" /\ lines[p].sub = searchCalls)

\* C6, third part: a deep session writes no error line, every sub-query that
\* was planned is searched and counted as completed, failed or not, and the
\* finished session has a content line.
C6_SessionContinues ==
    IsDeep =>
       /\ ~HasLine("error")
       /\ writerClosed =>
             /\ progressData.completedQueries = searchCalls
             /\ progressData.totalQueries = searchCalls
             /\ HasLine("content")

\* C6 as stated: a sub-query whose search or extraction failed contributes
\* zero sources and zero learnings, and the session continues.
C6_FailedSubQueryContributesNothing ==
    /\ C6_SearchFailureEmitsNothing
    /\ C6_ExtractionFailureEmitsNoLearning
    /\ (pc = "learnings" /\ extracted.failed)
         => \A p \in LineNos : ~OfSubQuery(p, searchCalls)
    /\ C6_SessionContinues

\* C6: a sub-query whose search failed contributes zero sources and zero
\* learnings, a sub-query whose extraction failed contributes zero learnings
\* (its sources are emitted before the extraction), and the session
\* continues: no error line, every sub-query counted, content emitted.
C6_FailedSubQueryTolerated ==
    /\ C6_SearchFailureEmitsNothing
    /\ C6_ExtractionFailureEmitsNoLearning
    /\ C6_SessionContinues

\* after a failed search the session went on to a sub-query whose sources
\* were emitted and whose extraction then failed
C6_Witness ==
    /\ IsDeep /\ pc = "learnings" /\ extracted.failed
    /\ failedSearches # {}
    /\ \E p \in LineNos : lines[p].type = "sources" /\ lines[p].sub = searchCalls

\* C7: after abort() no further search or LLM call is started.
C7_NoCallAfterAbort == ~callsAfterAbort

\* C8: a deep session requested with depth D and breadth B (each in 1..5)
\* makes at most 1 + B + B^2 + ... + B^(D-1) planning calls.
C8_PlanCallBound ==
    IsDeep => planCalls <= GeomSum(options.breadth, 0, options.depth - 1)

\* C9: a deep session requested with depth D and breadth B (each in 1..5)
\* makes at most B^D searches.
C9_SearchBound ==
    IsDeep => searchCalls <= Pow(options.breadth, options.depth)

\* What the code does keep: with B' = max(2, B), the breadth the session is
\* run with, at most 1 + B' + ... + B'^(D-1) planning calls and at most
\* B' + B'^2 + ... + B'^D searches.
CallsWithinClampedBounds ==
    IsDeep => /\ planCalls <= GeomSum(EffectiveBreadth, 0, options.depth - 1)
              /\ searchCalls <= GeomSum(EffectiveBreadth, 1, options.depth)

C11_ReportFallback ==
    /\ CountType(lines, "content") <= 1
    /\ \A p \in LineNos :
         (lines[p].type = "content" /\ lines[p].fallback) =>
            /\ ~HasLine("error")
            /\ IsDeep => lines[p].learnings = allLearnings
    /\ (writerClosed /\ ~HasLine("error")) => CountType(lines, "content") = 1

\* a closed deep session whose fallback report lists two learnings
C11_Witness ==
    /\ IsDeep /\ writerClosed /\ Len(allLearnings) >= 2
    /\ \E p \in LineNos : lines[p].type = "content" /\ lines[p].fallback

\* C12: the content line of a deep session carries an appended Sources
\* section whose bullets are exactly the URLs of the session's sources
\* lines, with the report of the LLM and with the fallback report.
C12_SourcesSection ==
    IsDeep =>
      \A p \in LineNos :
        lines[p].type = "content" =>
          /\ lines[p].section
          /\ {lines[p].urls[n] : n \in 1..Len(lines[p].urls)}
               = {UrlsEmitted(lines)[n] : n \in 1..Len(UrlsEmitted(lines))}

\* a request the spec calls invalid
InvalidRequest ==
    \/ userQuery = ""
    \/ options.depth \notin 1..5
    \/ options.breadth \notin 1..5

\* C15: a request whose depth or breadth lies outside 1..5, or whose query
\* is empty, is rejected with an error before any research event is
\* produced and before any search or LLM call is made.
C15_InvalidRequestRejected ==
    InvalidRequest =>
      /\ searchCalls = 0 /\ planCalls = 0
      /\ \A p \in LineNos : lines[p].type = "error"

\* C13: generateSerpQueries never throws: when the LLM call fails, or
\* its output holds no parseable JSON object with a queries array, it
\* returns exactly one query, whose string is the input query; otherwise
\* it returns at most numQueries queries.
C13_PlannerFallback ==
    (IsDeep /\ pc = "for_j") =>
      IF plannerKind \in PlannerFailures
      THEN generatedQueries = <<currentLevelQueries[i].query>>
      ELSE /\ plannerKind = "queries_array"
           /\ Len(generatedQueries) <= breadth
           /\ \A n \in 1..Len(generatedQueries) : generatedQueries[n] \in SerpStrings

\* the planner answered with a JSON value without a queries array and the
\* topic itself is about to be searched
C13_Witness ==
    /\ IsDeep /\ pc = "for_j" /\ j = 1
    /\ plannerKind = "no_queries_array"
    /\ generatedQueries = <<userQuery>>

\* C14: when the planner answers the level-1 plan call with a well-formed
\* object whose queries array is empty, the user's query is searched as the
\* single SERP query, so every deep session performs at least one search.
C14_EmptyPlanFallsBack ==
    /\ (IsDeep /\ pc = "for_j" /\ currentDepth = 1 /\ plannerKind = "queries_array")
         => Len(generatedQueries) >= 1
    /\ (IsDeep /\ writerClosed) => searchCalls >= 1

\* C16: a deep session requested with depth 1 and breadth 1 performs
\* exactly one plan call, at most one search and exactly one report call,
\* and enqueues no follow-up query.
C16_MinimalSession ==
    (IsDeep /\ options.depth = 1 /\ options.breadth = 1) =>
      /\ planCalls <= 1 /\ searchCalls <= 1
      /\ CountType(lines, "content") <= 1
      /\ nextLevelQueries = <<>>
      /\ \A n \in 1..Len(queriesToProcess) : queriesToProcess[n].depth = 1
      /\ writerClosed => (planCalls = 1 /\ CountType(lines, "content") = 1)

\* the levels of the entries of a frontier list
LevelsOf(q) == {q[n].depth : n \in 1..Len(q)}

\* C17: deep mode expands the frontier breadth-first: no query of level
\* k+1 is planned or searched before every sub-query of level k has
\* completed (a topic is planned only at its own level, with every
\* sub-query planned so far completed, and what is queued meanwhile belongs
\* to the next level), and the currentDepth carried by progress reports
\* never decreases and never exceeds D.
C17_BreadthFirst ==
    IsDeep =>
      /\ LevelsOf(currentLevelQueries) \subseteq {currentDepth}
      /\ LevelsOf(nextLevelQueries) \subseteq {currentDepth + 1}
      /\ pc \in {"for_i", "for_j", "sources", "learnings"}
           => queriesToProcess = <<>>
      /\ pc \in {"while", "for_i"}
           => /\ progressData.completedQueries = progressData.totalQueries
              /\ progressData.completedQueries = searchCalls
      /\ LET reports == CounterReports IN
         \A p \in 1..Len(reports) :
            /\ reports[p].depth <= options.depth
            /\ p > 1 => reports[p - 1].depth <= reports[p].depth

\* a second-level topic is being planned after two first-level sub-queries
C17_Witness ==
    /\ IsDeep /\ pc = "for_j" /\ currentDepth = 2 /\ j = 1
    /\ Len(generatedQueries) > 0
    /\ progressData.completedQueries >= 2

\* C18: in a deep session no sources line and no learning line is written
\* after the content line, and the report is written only when every
\* sub-query planned in the session has finished.
C18_ContentAfterSubQueries ==
    IsDeep =>
      /\ \A p \in LineNos :
           lines[p].type = "content" =>
             \A r \in (p + 1)..Len(lines) : lines[r].type \notin {"sources", "learning"}
      /\ (chunk.type = "content" \/ HasLine("content"))
           => /\ chunk.type \notin {"sources", "learning"}
              /\ progressData.completedQueries = progressData.totalQueries
              /\ progressData.completedQueries = searchCalls

\* a closed deep session of two levels whose content line follows sources
\* and learning lines of the second level
C18_Witness ==
    /\ IsDeep /\ writerClosed /\ currentDepth = 3
    /\ \E p \in LineNos :
          /\ lines[p].type = "content"
          /\ \E r \in 1..(p - 1) : lines[r].type = "learning" /\ lines[r].sub >= 3

\* the requests started in the window of WindowMs that ends at time t
StartedInWindow(t) ==
    {n \in 1..Len(requests) : requests[n] <= t /\ requests[n] > t - WindowMs}

\* C19: under every interleaving of the callers of the rate limiter at
\* most MAX_REQUESTS_PER_MINUTE provider requests are started within any
\* 60-second window.
C19_RequestsPerWindow ==
    \A n \in 1..Len(requests) :
       Cardinality(StartedInWindow(requests[n])) <= MAX_REQUESTS_PER_MINUTE

\* C20: the backoff starts at 1000 ms, is doubled each time a rate-limit
\* error is observed by any caller (up to 60000 ms), never exceeds 60000 ms,
\* and is back at 1000 ms when a 60-second window has elapsed.
C20_BackoffDoubles ==
    /\ currentBackoffMs >= BACKOFF_INITIAL_MS
    /\ currentBackoffMs <= BACKOFF_MAX_MS
    /\ currentBackoffMs >= Min(BACKOFF_INITIAL_MS * Pow(BACKOFF_MULTIPLIER, signals),
                               BACKOFF_MAX_MS)

\* C21: a search whose every provider request is answered with a
\* rate-limit error is retried at most 3 times: no call of
\* searchWithRateLimit starts more than 4 provider requests.
C21_RetriesBounded ==
    \A w \in Workers : attempts[w] <= 1 + 3

\* searchWeb has been called with these answers
SearchWebCalled == swResponses # <<>>

\* the answer to the n-th provider request is an error or has no documents
FailedAnswer(n) == ~swResponses[n].ok \/ swResponses[n].data = <<>>

\* C22: searchWeb issues at most 3 provider requests per call (one attempt
\* and at most 2 retries) and returns a value on every input; when every
\* attempt fails or returns no documents, the value has empty results and
\* empty sources.
C22_SearchWebBounded ==
    SearchWebCalled =>
       /\ swResult.attempts \in 1..(maxRetries + 1)
       /\ swResult.attempts <= 3
       /\ (\A n \in 1..(maxRetries + 1) : FailedAnswer(n))
             => /\ swResult.results = <<>>
                /\ swResult.sources = <<>>
                /\ ~swResult.success
       /\ (\E n \in 1..(maxRetries + 1) : ~FailedAnswer(n)) => swResult.success

\* a call whose three requests all failed, the fourth answer having documents
C22_Witness ==
    /\ SearchWebCalled
    /\ \A n \in 1..(maxRetries + 1) : FailedAnswer(n)
    /\ ~FailedAnswer(maxRetries + 2)
    /\ swResult.attempts = 3 /\ swResult.results = <<>>

\* C23: a chat call whose request is answered with HTTP 401 reloads the
\* credentials and sends the request exactly once more before it reports
\* the failure to its caller.
C23_RetryOnceOn401 ==
    \A n \in 1..Len(chatLog) :
       chatLog[n].answer = "401" => chatLog[n].reloaded /\ chatLog[n].fetches = 2

\* the sub-query searches in flight, at all levels of the recursion
SearchesInFlight == {t \in TaskPaths : rTask[t].st = "search"}

\* C24: in a session of the recursive deepResearch at most ConcurrencyLimit
\* sub-query searches are in flight at any time, those of nested calls
\* counted with those of the top level.
C24_SearchesInFlight == Cardinality(SearchesInFlight) <= ConcurrencyLimit

\* C27: the learnings and visitedUrls a call of the recursive deepResearch
\* returns contain all the learnings and visitedUrls passed to it.
C27_ResultsKept ==
    \A c \in CallPaths :
       rCall[c].st = "returned" =>
          /\ rCall[c].learnings \subseteq rCall[c].result.learnings
          /\ rCall[c].visitedUrls \subseteq rCall[c].result.visitedUrls

\* C25: no emitted source and no search result handed to formatting or
\* extraction has an empty or unparsable url, so that no session ends with
\* an error line because of the url of a result.
C25_NoInvalidUrl ==
    /\ \A p \in LineNos :
         lines[p].type = "sources" =>
            \A n \in 1..Len(lines[p].urls) : CanParseUrl(lines[p].urls[n])
    /\ \A n \in 1..Len(found.results) : CanParseUrl(found.results[n])
    /\ ~HasLine("error")

\* C25, its last part alone: no session ends with an error line in place of
\* the content line.
C25_NoErrorLine == writerClosed => (~HasLine("error") /\ HasLine("content"))

\* C26: in deep mode follow-ups are added to the frontier only while the
\* current level is below D, each with level = current level + 1: every
\* frontier entry has a level <= D, at the head of each iteration of the
\* level loop every frontier entry has the level currentDepth, and with
\* D = 1 the frontier is never extended.
C26_FrontierLevels ==
    IsDeep =>
      /\ \A l \in LevelsOf(queriesToProcess) \cup LevelsOf(currentLevelQueries)
                  \cup LevelsOf(nextLevelQueries) : l <= depth
      /\ nextLevelQueries # <<>> => currentDepth < depth
      /\ pc = "while" => LevelsOf(queriesToProcess) \subseteq {currentDepth}
      /\ depth = 1 =>
            /\ nextLevelQueries = <<>>
            /\ pc # "start" => Len(queriesToProcess) + Len(currentLevelQueries) <= 1

\* the head of the second iteration, with two follow-ups of level 2 queued
C26_Witness ==
    /\ IsDeep /\ pc = "while" /\ currentDepth = 2 /\ depth = 2
    /\ Len(queriesToProcess) >= 2

\* C28: DeepResearchAgent.deepResearch searches every SERP query the
\* planner returned for a level before it returns the level's result.
C28_EveryQuerySearched ==
    \A r \in 1..Len(dLog) : dLog[r].searched = dLog[r].n

\* the whole body has been read
BodyRead == sentEvents > 0 /\ unread = <<>>

\* C29: every event line written by the server is applied by the client
\* exactly once, however the body is split into read chunks.
C29_EveryEventApplied ==
    BodyRead => applied = [n \in 1..sentEvents |-> n]

\* C30: the route closes the response writer exactly once on every path,
\* writes no line after the close, and after a chunk write has failed it
\* consumes and writes no further chunk of the agent's stream.
C30_WriterClosedOnce ==
    /\ [](closeCalls <= 1 /\ (writerClosed <=> closeCalls = 1))
    /\ [](writeFailed => (pc = "done" /\ chunk = NoChunk))
    /\ [][(writerClosed \/ writeFailed) => lines' = lines]_vars
    /\ <>(closeCalls = 1)

\* a deep session closed after a chunk write failed, a sources line having
\* been written before
C30_Witness ==
    /\ IsDeep /\ writeFailed /\ writerClosed /\ closeCalls = 1
    /\ HasLine("sources") /\ ~HasLine("content")

====
